---------------------------- MODULE Spec2Model ----------------------------
(***************************************************************************)
(* Business-rule workflow orchestration of nerealegui/capstone.            *)
(*                                                                         *)
(* Two orchestrators exist in the repository and the chat toggle selects   *)
(* one of them: the LangGraph StateGraph (BusinessRuleWorkflow, nine       *)
(* nodes, README "StateGraph Node Structure" / "Conditional Edge Routing") *)
(* and the traditional Agent 3 workflow (orchestrate_rule_generation,      *)
(* docs/AGENTS_DEEPDIVE.md).  utils/workflow_orchestrator.py itself is not *)
(* part of the sources at hand: the graph's nodes and edges are taken from *)
(* the README, the bodies of the node functions and of the two routing     *)
(* predicates from the specification (sections 3, 4 and 7).                *)
(***************************************************************************)
EXTENDS Naturals, Sequences, FiniteSets, TLC

VARIABLES
    langgraph_enabled,  \* chat toggle: LangGraph workflow or traditional Agent 3
    llm_profile,        \* which answers the (mock) LLM adapter can give
    sessions,           \* the sessions whose callers invoke run_workflow
    rule_store,         \* rules.json: the list save_rules wrote last
    model_used,         \* history: the model the last generate_content call of a run named
    write_log,          \* history: every save (session, rule, list it merged into)
    runs_started,       \* history: number of run_workflow calls so far
    node,               \* per session: the node the graph executes next
    state,              \* per session: the WorkflowState of the current run
    outcome,            \* per session: what the last call handed its caller
    llm_calls,          \* per session: LLM Client Adapter calls of the run
    trace,              \* per session: nodes executed by the run, in order
    loaded,             \* per session: load_rules() snapshot held by generate
    attempts,           \* per session: failed tries of the adapter call under way
    cancel_requested,   \* per session: the caller has signalled cancellation
    config_file,        \* config/user_config.json as load_config finds it
    orch,               \* the traditional workflow's call (workflow_result)
    parser              \* JsonResponseHandler: a payload, a response, the results

vars == <<langgraph_enabled, llm_profile, sessions, rule_store, write_log,
          runs_started, node, state, outcome, llm_calls, trace, loaded, attempts,
          cancel_requested, config_file, model_used, orch, parser>>

graph_vars == <<rule_store, write_log, runs_started, node, state, outcome,
                llm_calls, trace, loaded, attempts, cancel_requested, model_used>>

(***************************************************************************)
(* Bounds                                                                  *)
(***************************************************************************)
MaxRuns == 2

Sessions == {"s1", "s2"}

(***************************************************************************)
(* Python values.  An optional value is a sequence of length 0 (None) or 1.*)
(***************************************************************************)
None == <<>>

Some(x) == <<x>>

IsNone(o) == Len(o) = 0

Whitespace == {" ", "nbsp"}

RECURSIVE lstrip(_)
lstrip(s) ==
    IF Len(s) > 0 /\ Head(s) \in Whitespace THEN lstrip(Tail(s)) ELSE s

RECURSIVE rstrip(_)
rstrip(s) ==
    IF Len(s) > 0 /\ s[Len(s)] \in Whitespace
    THEN rstrip(SubSeq(s, 1, Len(s) - 1))
    ELSE s

strip(s) == rstrip(lstrip(s))

\* user_input values a caller passes: None, "", " ", "\u00A0" and " a", the
\* one that is not empty after trimming
UserInputs ==
    { None, Some(<<>>), Some(<<" ">>), Some(<<"nbsp">>), Some(<<" ", "a">>) }


\* mutant: only `if not query`, the strip() test left out
InvalidQuery_NoStrip(query) ==
    \/ IsNone(query)
    \/ Len(query[1]) = 0

\* rag_generate: if not query or not query.strip(): -> "Input Validation Error"
InvalidQuery(query) ==
    \/ IsNone(query)
    \/ Len(query[1]) = 0
    \/ Len(strip(query[1])) = 0

(***************************************************************************)
(* Rules and the Rule Store                                                *)
(***************************************************************************)
RuleIds == {"R1", "R2"}

\* name and logic of a rule as Agent 1 returns them; a record that takes its
\* name from one payload and its logic from the other is a mixture of both
Payloads ==
    { [name |-> "n1", logic |-> [conditions |-> <<"c1">>, actions |-> <<"a1">>]],
      [name |-> "n2", logic |-> [conditions |-> <<"c2">>, actions |-> <<"a2">>]] }

Rule(id, p) == [rule_id |-> id, name |-> p.name, logic |-> p.logic]

ParsedRules == { Rule(id, p) : id \in RuleIds, p \in Payloads }

\* the severities the conflict detectors assign
Severity == {"medium", "high"}

\* overall_impact_level of an assessment
ImpactLevels == {"low", "high"}

\* the content of rules.json when the application starts
InitialStores ==
    { <<>>,
      <<[rule_id |-> "R1", name |-> "n0",
         logic |-> [conditions |-> <<"c0">>, actions |-> <<"a0">>]]>> }

HasRule(rules, id) == \E i \in 1..Len(rules) : rules[i].rule_id = id

\* mutant: the new rule is appended whether or not its rule_id is known
upsert_rule_Append(rules, new_rule) == Append(rules, new_rule)

\* mutant: a known rule is updated field by field and keeps its old name
upsert_rule_FieldMerge(rules, new_rule) ==
    IF HasRule(rules, new_rule.rule_id)
    THEN [i \in 1..Len(rules) |->
            IF rules[i].rule_id = new_rule.rule_id
            THEN [rules[i] EXCEPT !.logic = new_rule.logic]
            ELSE rules[i]]
    ELSE Append(rules, new_rule)

\* rule_extractor: existing_map[rule_id] = new_rule, for a known and for a new id
upsert_rule(rules, new_rule) ==
    IF HasRule(rules, new_rule.rule_id)
    THEN [i \in 1..Len(rules) |->
            IF rules[i].rule_id = new_rule.rule_id THEN new_rule ELSE rules[i]]
    ELSE Append(rules, new_rule)

(***************************************************************************)
(* WorkflowState                                                           *)
(***************************************************************************)
\* what the caller of a session passes along with user_input: the messages
\* exchanged so far and the industry its rules are for
CallerHistory(r) ==
    IF r = "s1" THEN <<>> ELSE <<[role |-> "user"], [role |-> "assistant"]>>

CallerIndustry(r) == IF r = "s1" THEN "retail" ELSE "generic"

InitialState(user_input, conversation_history, industry_context) ==
    [ user_input          |-> user_input,
      conversation_history |-> conversation_history,
      industry_context    |-> industry_context,
      parsed_rule         |-> None,
      conflicts           |-> <<>>,
      impact_analysis     |-> None,
      decision            |-> "",
      generated_artifacts |-> None,
      verification_result |-> None,
      error               |-> None,
      final_response      |-> <<>>,
      config              |-> None ]

ErrorRecord(stage, kind, reason) ==
    Some([stage |-> stage, kind |-> kind, reason |-> reason])

HasHighSeverity(conflicts) ==
    \E i \in 1..Len(conflicts) : conflicts[i].severity = "high"

(***************************************************************************)
(* The StateGraph: nodes, entry point and edges                            *)
(***************************************************************************)
Nodes ==
    { "load_config", "agent1_parse_rule", "agent3_conflict_analysis",
      "agent3_impact_analysis", "agent3_orchestration", "agent2_generate_files",
      "verify_files", "generate_response", "handle_error" }

EntryPoint == "load_config"

END == "__end__"

IDLE == "__idle__"

\* add_conditional_edges("load_config", lambda state: "agent1_parse_rule", ...)
LoadConfigEdges == [agent1_parse_rule |-> "agent1_parse_rule"]

\* mutant: the error route of agent1_parse_rule wired to END, past handle_error
ParseRuleEdges_ErrorToEnd ==
    [conflict_analysis |-> "agent3_conflict_analysis", error |-> END]

\* add_conditional_edges("agent1_parse_rule", _should_proceed_to_conflict_analysis, ...)
ParseRuleEdges ==
    [conflict_analysis |-> "agent3_conflict_analysis", error |-> "handle_error"]

\* mutant: the targets of generate_files and response_only exchanged
OrchestrationEdges_Swapped ==
    [generate_files |-> "generate_response",
     response_only  |-> "agent2_generate_files",
     error          |-> "handle_error"]

\* mutant: response_only wired to the generator as well
OrchestrationEdges_AlwaysGenerate ==
    [generate_files |-> "agent2_generate_files",
     response_only  |-> "agent2_generate_files",
     error          |-> "handle_error"]

\* add_conditional_edges("agent3_orchestration", _should_generate_files, ...)
OrchestrationEdges ==
    [generate_files |-> "agent2_generate_files",
     response_only  |-> "generate_response",
     error          |-> "handle_error"]

\* mutant: verify_files wired to handle_error instead of generate_response
PlainEdge_VerifyToError(n) ==
    CASE n = "agent3_conflict_analysis" -> "agent3_impact_analysis"
      [] n = "agent3_impact_analysis"   -> "agent3_orchestration"
      [] n = "agent2_generate_files"    -> "verify_files"
      [] n = "verify_files"             -> "handle_error"
      [] n = "generate_response"        -> END
      [] n = "handle_error"             -> END

\* mutant: generate_response hands the run back to agent1_parse_rule
PlainEdge_RespondLoops(n) ==
    CASE n = "agent3_conflict_analysis" -> "agent3_impact_analysis"
      [] n = "agent3_impact_analysis"   -> "agent3_orchestration"
      [] n = "agent2_generate_files"    -> "verify_files"
      [] n = "verify_files"             -> "generate_response"
      [] n = "generate_response"        -> "agent1_parse_rule"
      [] n = "handle_error"             -> END

\* mutant: generate_response is followed by handle_error
PlainEdge_RespondThenError(n) ==
    CASE n = "agent3_conflict_analysis" -> "agent3_impact_analysis"
      [] n = "agent3_impact_analysis"   -> "agent3_orchestration"
      [] n = "agent2_generate_files"    -> "verify_files"
      [] n = "verify_files"             -> "generate_response"
      [] n = "generate_response"        -> "handle_error"
      [] n = "handle_error"             -> END

\* the unconditional arrows of the execution-flow diagram
PlainEdge(n) ==
    CASE n = "agent3_conflict_analysis" -> "agent3_impact_analysis"
      [] n = "agent3_impact_analysis"   -> "agent3_orchestration"
      [] n = "agent2_generate_files"    -> "verify_files"
      [] n = "verify_files"             -> "generate_response"
      [] n = "generate_response"        -> END
      [] n = "handle_error"             -> END

_should_proceed_to_conflict_analysis(s) ==
    IF ~IsNone(s.error) THEN "error" ELSE "conflict_analysis"

_should_generate_files(s) ==
    IF ~IsNone(s.error) THEN "error"
    ELSE IF s.decision = "proceed" /\ ~HasHighSeverity(s.conflicts)
         THEN "generate_files"
         ELSE "response_only"

\* the node the graph executes after node n has returned state s
NextNode(n, s) ==
    CASE n = "load_config"          -> LoadConfigEdges["agent1_parse_rule"]
      [] n = "agent1_parse_rule"    -> ParseRuleEdges[_should_proceed_to_conflict_analysis(s)]
      [] n = "agent3_orchestration" -> OrchestrationEdges[_should_generate_files(s)]
      [] OTHER                      -> PlainEdge(n)

(***************************************************************************)
(* JsonResponseHandler: the text of an LLM response as a sequence of       *)
(* tokens, "{" "}" "," "..." the members "a" "b" and the prose word "w"    *)
(***************************************************************************)
Members == {"a", "b"}

\* json.loads on an object: its members as a mapping (order and repetition
\* do not show in the result), None for text that is not valid JSON
json_loads(s) ==
    IF /\ Len(s) >= 2
       /\ s[1] = "{"
       /\ s[Len(s)] = "}"
       /\ (Len(s) = 2 \/ Len(s) % 2 = 1)
       /\ \A i \in 2..(Len(s) - 1) :
             IF i % 2 = 0 THEN s[i] \in Members ELSE s[i] = ","
    THEN Some({ s[i] : i \in 2..(Len(s) - 1) } \cap Members)
    ELSE None

\* mutant: only the text in front of the first "{" is stripped
extract_json_LeadingOnly(s) ==
    IF \E i \in 1..Len(s) : s[i] = "{"
    THEN SubSeq(s, CHOOSE i \in 1..Len(s) : s[i] = "{" /\ \A j \in 1..(i - 1) : s[j] # "{",
                Len(s))
    ELSE s

\* the JSON span of a response: from the first "{" to the last "}"
extract_json(s) ==
    LET opens  == { i \in 1..Len(s) : s[i] = "{" }
        closes == { i \in 1..Len(s) : s[i] = "}" }
    IN  IF opens # {} /\ closes # {}
        THEN LET first == CHOOSE i \in opens : \A j \in opens : i <= j
                 last  == CHOOSE i \in closes : \A j \in closes : j <= i
             IN  IF first < last THEN SubSeq(s, first, last) ELSE s
        ELSE s

RECURSIVE fix_trailing_commas(_)
fix_trailing_commas(s) ==
    IF Len(s) < 2 THEN s
    ELSE IF s[1] = "," /\ s[2] = "}"
         THEN fix_trailing_commas(Tail(s))
         ELSE <<s[1]>> \o fix_trailing_commas(Tail(s))

\* clean_json_string: ellipses and trailing commas are removed
clean_json_string(json_str) ==
    fix_trailing_commas(SelectSeq(json_str, LAMBDA tok : tok # "..."))

\* parse_json_response: the JSON span is parsed as it is, and after cleaning
\* if that fails; None stands for the ValueError of a text beyond repair
parse_json_response(response_text) ==
    LET span == extract_json(response_text) IN
    IF ~IsNone(json_loads(span))
    THEN json_loads(span)
    ELSE json_loads(clean_json_string(span))

\* JSON payloads: valid ones, ones that cleaning repairs, ones beyond repair
JsonPayloads ==
    { <<"{", "}">>, <<"{", "a", "}">>, <<"{", "a", ",", "b", "}">>,
      <<"{", "b", ",", "a", "}">>,
      <<"{", "a", ",", "}">>, <<"{", "a", "...", "}">>,
      <<"{", "a">>, <<"{", "a", "b", "}">> }

ProseTokens == {"w", ",", "..."}

\* explanatory prose: up to two tokens, none of them a brace
Prose ==
    { <<>> } \cup { <<x>> : x \in ProseTokens }
             \cup { <<x, y>> : x \in ProseTokens, y \in ProseTokens }

ParserIdle ==
    [bare |-> <<>>, response |-> <<>>, from_bare |-> None, from_response |-> None]

(***************************************************************************)
(* config_manager: the saved configuration and the defaults                *)
(***************************************************************************)
\* config/user_config.json: a complete configuration
SavedConfigFile ==
    Some([valid_json |-> TRUE, agent_prompts |-> "saved prompts",
          model_config |-> "saved model"])

\* the file as load_config can find it: missing, not JSON, JSON without its
\* model_config, complete
ConfigFiles ==
    { None,
      Some([valid_json |-> FALSE]),
      Some([valid_json |-> TRUE, agent_prompts |-> "saved prompts"]),
      SavedConfigFile }

DEFAULT_CONFIG == [agent_prompts |-> "default prompts", model_config |-> "default model"]

\* structure validation: the file is JSON and all required keys exist
validate_config(file) ==
    /\ ~IsNone(file)
    /\ file[1].valid_json
    /\ {"agent_prompts", "model_config"} \subseteq DOMAIN file[1]

\* apply_saved_config: the saved values, and the defaults when the file is
\* missing, corrupted or does not validate
apply_saved_config(file) ==
    IF validate_config(file)
    THEN [agent_prompts |-> file[1].agent_prompts, model_config |-> file[1].model_config]
    ELSE DEFAULT_CONFIG

\* the configuration the Configuration tab saves over config/user_config.json
EditedConfigFile ==
    Some([valid_json |-> TRUE, agent_prompts |-> "edited prompts",
          model_config |-> "edited model"])

\* DEFAULT_MODEL: the module-level setting a generate_content call names; the
\* saved configuration is applied to it at startup and whenever it is saved,
\* and takes effect immediately
DEFAULT_MODEL == apply_saved_config(config_file).model_config

(***************************************************************************)
(* The LLM Client Adapter: the answers a call can come back with.  A       *)
(* single session is explored against every answer; two concurrent         *)
(* sessions against an adapter whose analysis calls do not fail; and a     *)
(* single session with such an adapter against every configuration file    *)
(* and a caller that may cancel.                                           *)
(***************************************************************************)
\* the JSON object of a rule as the LLM writes it: rule_id, name, conditions
\* and actions are its top-level keys
RuleData(rule) ==
    [rule_id |-> rule.rule_id, name |-> rule.name,
     conditions |-> rule.logic.conditions, actions |-> rule.logic.actions]

\* the objects an answer of the LLM can hold: the well-formed rules, one that
\* lacks its actions, one whose list of conditions is empty, and one that
\* carries no rule_id
RuleCandidates ==
    { RuleData(x) : x \in ParsedRules }
    \cup { [rule_id |-> "R1", name |-> "n1", conditions |-> <<"c1">>] }
    \cup (IF llm_profile = "full"
          THEN { [rule_id |-> "R1", name |-> "n1", conditions |-> <<>>,
                  actions |-> <<"a1">>],
                 [name |-> "n1", conditions |-> <<"c1">>, actions |-> <<"a1">>] }
          ELSE {})

\* the text of an answer: a JSON object inside prose whose trailing comma the
\* cleaning removes, and one that stays invalid after cleaning
RepairableText == <<"w", "{", "a", ",", "}", "w">>

BrokenText == <<"w", "{", "a", "b", "}">>

\* a call that ran into its timeout has delivered no text
TimedOutText == <<>>

ResponseTexts == {RepairableText, BrokenText, TimedOutText}

\* JsonResponseHandler.parse_json_response on each of these texts
parsed_response == [text \in ResponseTexts |-> parse_json_response(text)]

\* what generate_content answers to the prompt of Agent 1
LLMParseResponses ==
    { [text |-> RepairableText, rule_data |-> c] : c \in RuleCandidates }
    \cup (IF llm_profile = "full"
          THEN { [text |-> BrokenText, rule_data |-> None],
                 [text |-> TimedOutText, rule_data |-> None] }
          ELSE {})

\* validate_rule_format: a required field that is not a key of rule_data is
\* missing; the value of a field that is present is not looked at
validate_rule_format(rule_data) ==
    LET required_fields == {"rule_id", "name", "conditions", "actions"}
        missing_fields  == { field \in required_fields : field \notin DOMAIN rule_data }
    IN  [is_valid |-> missing_fields = {}, missing_fields |-> missing_fields]

\* mutant: a text beyond repair is reported as a failed generation
agent1_process_GenerationError(response) ==
    IF IsNone(parsed_response[response.text])
    THEN [ok |-> FALSE, rule |-> None, kind |-> "GenerationError", reason |-> "UnrecoverableJSON"]
    ELSE IF ~validate_rule_format(response.rule_data).is_valid
    THEN [ok |-> FALSE, rule |-> None, kind |-> "ParseError", reason |-> "MalformedLLMOutput"]
    ELSE [ok |-> TRUE,
          rule |-> Some([rule_id |-> response.rule_data.rule_id,
                         name |-> response.rule_data.name,
                         logic |-> [conditions |-> response.rule_data.conditions,
                                    actions |-> response.rule_data.actions]]),
          kind |-> "", reason |-> ""]

\* agent1_process: the answer is parsed and repaired as JSON, the object is
\* checked for the required fields, and the rule is handed on
agent1_process(response) ==
    IF IsNone(parsed_response[response.text])
    THEN [ok |-> FALSE, rule |-> None, kind |-> "ParseError", reason |-> "UnrecoverableJSON"]
    ELSE IF ~validate_rule_format(response.rule_data).is_valid
    THEN [ok |-> FALSE, rule |-> None, kind |-> "ParseError", reason |-> "MalformedLLMOutput"]
    ELSE [ok |-> TRUE,
          rule |-> Some([rule_id |-> response.rule_data.rule_id,
                         name |-> response.rule_data.name,
                         logic |-> [conditions |-> response.rule_data.conditions,
                                    actions |-> response.rule_data.actions]]),
          kind |-> "", reason |-> ""]

ParseAnswers == { agent1_process(response) : response \in LLMParseResponses }

\* analyze_rule_conflicts: per existing rule, the conflicts the detector reports
RECURSIVE ConflictLists(_)
ConflictLists(existing) ==
    IF Len(existing) = 0 THEN { <<>> }
    ELSE LET here == { <<>> } \cup
                     { <<[conflicting_rule |-> Head(existing).rule_id,
                          severity |-> v]>> : v \in Severity }
         IN  { h \o t : h \in here, t \in ConflictLists(Tail(existing)) }

ConflictAnswers(existing) ==
    IF llm_profile = "full"
    THEN { [ok |-> TRUE, conflicts |-> c] : c \in ConflictLists(existing) }
         \cup { [ok |-> FALSE, conflicts |-> <<>>] }
    ELSE { [ok |-> TRUE, conflicts |-> <<>>] }

FallbackImpact == [level |-> "medium", recommendation |-> "insufficient data"]

ImpactAnswers ==
    IF llm_profile = "full"
    THEN { [result |-> "ok", assessment |-> [level |-> v, recommendation |-> "advice"]] :
             v \in ImpactLevels }
         \cup { [result |-> "call_failed", assessment |-> FallbackImpact],
                [result |-> "error", assessment |-> FallbackImpact] }
    ELSE { [result |-> "ok", assessment |-> [level |-> "low", recommendation |-> "advice"]] }

DecisionAnswers ==
    IF llm_profile = "full"
    THEN { [ok |-> TRUE, decision |-> d] : d \in {"proceed", "modify", "cancel"} }
         \cup { [ok |-> FALSE, decision |-> ""] }
    ELSE { [ok |-> TRUE, decision |-> d] : d \in {"proceed", "cancel"} }

GenerateAnswers == IF llm_profile = "full" THEN BOOLEAN ELSE {TRUE}

\* generate_drl_content / generate_gdst_content: both texts carry name and rule_id
generate_drl_content(json_rule) == <<"rule", json_rule.name, json_rule.rule_id, json_rule.logic>>

generate_gdst_content(json_rule) == <<"decision-table", json_rule.name, json_rule.rule_id>>

(***************************************************************************)
(* The node functions: each returns the state it hands back to the graph   *)
(***************************************************************************)
\* mutant: a configuration that does not validate is reported as an error
_load_config_ErrorOnInvalid(s, file) ==
    IF validate_config(file)
    THEN [s EXCEPT !.config = Some(apply_saved_config(file))]
    ELSE [s EXCEPT !.error = ErrorRecord("load_config", "ConfigError", "invalid")]

_load_config(s, file) == [s EXCEPT !.config = Some(apply_saved_config(file))]

\* mutant: a failed parse leaves a placeholder rule in the state
_agent1_parse_rule_PlaceholderOnFailure(s, ans) ==
    IF ans.ok
    THEN [s EXCEPT !.parsed_rule = ans.rule]
    ELSE [s EXCEPT !.parsed_rule = Some(Rule("R1", CHOOSE p \in Payloads : p.name = "n1")),
                   !.error = ErrorRecord("agent1_parse_rule", ans.kind, ans.reason)]

_agent1_parse_rule(s, ans) ==
    IF ans.ok
    THEN [s EXCEPT !.parsed_rule = ans.rule]
    ELSE [s EXCEPT !.error = ErrorRecord("agent1_parse_rule", ans.kind, ans.reason)]

\* mutant: after a failed call the list holds a placeholder, not conflicts
_agent3_conflict_analysis_PlaceholderOnFailure(s, ans) ==
    IF ans.ok
    THEN [s EXCEPT !.conflicts = ans.conflicts]
    ELSE [s EXCEPT !.conflicts = <<[conflicting_rule |-> "", severity |-> "unknown"]>>,
                   !.error = ErrorRecord("agent3_conflict_analysis",
                                         "ConflictAnalysisError", "call failed")]

_agent3_conflict_analysis(s, ans) ==
    IF ans.ok
    THEN [s EXCEPT !.conflicts = ans.conflicts]
    ELSE [s EXCEPT !.conflicts = <<>>,
                   !.error = ErrorRecord("agent3_conflict_analysis",
                                         "ConflictAnalysisError", "call failed")]

_agent3_impact_analysis(s, ans) ==
    IF ans.result = "error"
    THEN [s EXCEPT !.error = ErrorRecord("agent3_impact_analysis",
                                         "ImpactAnalysisError", "call failed")]
    ELSE [s EXCEPT !.impact_analysis = Some(ans.assessment)]

_agent3_orchestration(s, ans) ==
    IF ans.ok
    THEN [s EXCEPT !.decision = ans.decision]
    ELSE [s EXCEPT !.error = ErrorRecord("agent3_orchestration",
                                         "OrchestrationError", "call failed")]

_agent2_generate_files(s, ok) ==
    IF ok /\ ~IsNone(s.parsed_rule)
    THEN [s EXCEPT !.generated_artifacts =
                     Some([rule_text  |-> generate_drl_content(s.parsed_rule[1]),
                           table_text |-> generate_gdst_content(s.parsed_rule[1])])]
    ELSE [s EXCEPT !.error = ErrorRecord("agent2_generate_files",
                                         "GenerationError", "call failed")]

\* verify_drools_execution: a VerificationResult computed from the content,
\* which it reads and does not change
verify_drools_execution(drl_content, valid) ==
    [is_valid |-> valid,
     message  |-> IF valid THEN "ok" ELSE "structural check failed"]

\* mutant: artifacts that fail verification are discarded
_verify_files_DiscardOnFailure(s, valid) ==
    [s EXCEPT !.verification_result =
                 IF IsNone(s.generated_artifacts)
                 THEN Some([is_valid |-> FALSE, message |-> "no artifacts"])
                 ELSE Some(verify_drools_execution(s.generated_artifacts[1].rule_text, valid)),
              !.generated_artifacts = IF valid THEN @ ELSE None]

\* verify_files: the result of verify_drools_execution is stored, the
\* artifacts are left as they are
_verify_files(s, valid) ==
    [s EXCEPT !.verification_result =
        IF IsNone(s.generated_artifacts)
        THEN Some([is_valid |-> FALSE, message |-> "no artifacts"])
        ELSE Some(verify_drools_execution(s.generated_artifacts[1].rule_text, valid))]

\* mutant: a verification_result that was never set is read as a failed one
ResponseParts_ReadsUnset(s) ==
    <<"response">>
    \o (IF HasHighSeverity(s.conflicts) THEN <<"conflicts">> ELSE <<>>)
    \o (IF s.decision = "modify" THEN <<"clarification_request">> ELSE <<>>)
    \o (IF s.decision = "cancel" THEN <<"cancelled">> ELSE <<>>)
    \o (IF ~IsNone(s.generated_artifacts) THEN <<"artifacts">> ELSE <<>>)
    \o (IF IsNone(s.verification_result) \/ ~s.verification_result[1].is_valid
        THEN <<"VerificationWarning">> ELSE <<>>)

ResponseParts(s) ==
    <<"response">>
    \o (IF HasHighSeverity(s.conflicts) THEN <<"conflicts">> ELSE <<>>)
    \o (IF s.decision = "modify" THEN <<"clarification_request">> ELSE <<>>)
    \o (IF s.decision = "cancel" THEN <<"cancelled">> ELSE <<>>)
    \o (IF ~IsNone(s.generated_artifacts) THEN <<"artifacts">> ELSE <<>>)
    \o (IF ~IsNone(s.verification_result) /\ ~s.verification_result[1].is_valid
        THEN <<"VerificationWarning">> ELSE <<>>)

\* mutant: the response is appended to the conversation history in the state
_generate_response_AppendsHistory(s) ==
    [s EXCEPT !.final_response = ResponseParts(s),
              !.conversation_history = Append(@, [role |-> "assistant"])]

_generate_response(s) == [s EXCEPT !.final_response = ResponseParts(s)]

\* mutant: the message of handle_error does not say which stage failed
_handle_error_Generic(s) == [s EXCEPT !.final_response = <<"error", "unknown">>]

_handle_error(s) ==
    [s EXCEPT !.final_response =
        <<"error", IF IsNone(s.error) THEN "unknown" ELSE s.error[1].stage>>]

(***************************************************************************)
(* Initial state                                                           *)
(***************************************************************************)
\* orchestrate_rule_generation: workflow_result as the function initialises it,
\* the step it is at, and which of its return statements it left through
OrchIdle ==
    [ pc |-> "idle", steps_completed |-> <<>>, generated_content |-> {},
      json_rule |-> None, conflicts |-> <<>>, success |-> FALSE,
      error |-> None, fallback_available |-> FALSE, returned |-> "none" ]

Init ==
    /\ langgraph_enabled \in BOOLEAN
    /\ \/ sessions = {"s1"} /\ llm_profile = "full" /\ config_file = SavedConfigFile
       \/ /\ sessions = Sessions /\ llm_profile = "stable" /\ langgraph_enabled
          /\ config_file = SavedConfigFile
       \/ sessions = {"s1"} /\ llm_profile = "stable" /\ config_file \in ConfigFiles
    /\ rule_store \in InitialStores
    /\ write_log = <<>>
    /\ runs_started = 0
    /\ node = [r \in Sessions |-> IDLE]
    /\ state = [r \in Sessions |-> InitialState(None, <<>>, "generic")]
    /\ outcome = [r \in Sessions |-> "none"]
    /\ llm_calls = [r \in Sessions |-> 0]
    /\ trace = [r \in Sessions |-> <<>>]
    /\ loaded = [r \in Sessions |-> None]
    /\ attempts = [r \in Sessions |-> 0]
    /\ cancel_requested = [r \in Sessions |-> FALSE]
    /\ model_used = [r \in Sessions |-> None]
    /\ orch = OrchIdle
    /\ parser = ParserIdle

(***************************************************************************)
(* run_workflow and the nodes of the graph                                 *)
(***************************************************************************)
\* the stages that call the LLM Client Adapter
LLMStages ==
    { "agent1_parse_rule", "agent3_conflict_analysis", "agent3_impact_analysis",
      "agent3_orchestration", "agent2_generate_files" }

\* the tries after which get_json_response_from_gemini gives up
max_retries == 3

\* mutant: the loop allows one try more than max_retries
MayRetry_OneMore(failed) == failed < max_retries

\* for attempt in range(max_retries): after `failed` failed tries another one
\* follows as long as tries are left
MayRetry(failed) == failed + 1 < max_retries

\* the stages whose adapter call is repeated when it fails or times out
RetryStages == {"agent1_parse_rule", "agent2_generate_files"}

\* mutant: agent1_parse_rule asks the adapter a second time
AdapterCalls_ParseTwice(n) ==
    IF n = "agent1_parse_rule" THEN 2 ELSE IF n \in LLMStages THEN 1 ELSE 0

\* the number of adapter calls node n makes when it runs
AdapterCalls(n) == IF n \in LLMStages THEN 1 ELSE 0

\* mutant: handle_error re-raises instead of returning its state
RunResult_Reraise(n) == IF n = "handle_error" THEN "raised" ELSE "returned"

\* what run_workflow hands its caller when node n was the last of the run
RunResult(n) == "returned"

\* mutant: the graph keeps one state object, which every open session sees
Return_SharedState(r, n, s2, calls) ==
    /\ state' = [q \in Sessions |-> IF q \in sessions THEN s2 ELSE state[q]]
    /\ node' = [node EXCEPT ![r] = NextNode(n, s2)]
    /\ llm_calls' = [llm_calls EXCEPT ![r] = @ + calls]
    /\ trace' = [trace EXCEPT ![r] = Append(@, n)]
    /\ outcome' = [outcome EXCEPT ![r] = IF NextNode(n, s2) = END THEN RunResult(n) ELSE @]

\* node n of session r returns state s2 after `calls` adapter calls
Return(r, n, s2, calls) ==
    /\ state' = [state EXCEPT ![r] = s2]
    /\ node' = [node EXCEPT ![r] = NextNode(n, s2)]
    /\ llm_calls' = [llm_calls EXCEPT ![r] = @ + calls]
    /\ trace' = [trace EXCEPT ![r] = Append(@, n)]
    /\ outcome' = [outcome EXCEPT ![r] = IF NextNode(n, s2) = END THEN RunResult(n) ELSE @]

run_workflow(r) ==
    /\ langgraph_enabled
    /\ r \in sessions
    /\ node[r] \in {IDLE, END}
    /\ runs_started < MaxRuns
    /\ runs_started' = runs_started + 1
    /\ \E user_input \in UserInputs :
         /\ state' = [state EXCEPT ![r] = InitialState(user_input, CallerHistory(r),
                                                      CallerIndustry(r))]
         /\ IF InvalidQuery(user_input)
            THEN /\ node' = [node EXCEPT ![r] = IDLE]
                 /\ outcome' = [outcome EXCEPT ![r] = "InputValidationError"]
            ELSE /\ node' = [node EXCEPT ![r] = EntryPoint]
                 /\ outcome' = [outcome EXCEPT ![r] = "running"]
    /\ llm_calls' = [llm_calls EXCEPT ![r] = 0]
    /\ trace' = [trace EXCEPT ![r] = <<>>]
    /\ cancel_requested' = [cancel_requested EXCEPT ![r] = FALSE]
    /\ model_used' = [model_used EXCEPT ![r] = None]
    /\ UNCHANGED <<attempts, config_file, parser, langgraph_enabled,
                   llm_profile, sessions, rule_store, write_log,
                   loaded, orch>>

\* the caller of a run in progress signals that it no longer waits for the
\* result; explored for a single session whose LLM calls do not fail
cancel(r) ==
    /\ sessions = {"s1"}
    /\ llm_profile = "stable"
    /\ r \in sessions
    /\ outcome[r] = "running"
    /\ ~cancel_requested[r]
    /\ cancel_requested' = [cancel_requested EXCEPT ![r] = TRUE]
    /\ UNCHANGED <<model_used, attempts, config_file, parser, langgraph_enabled, llm_profile, sessions,
                   rule_store, write_log, runs_started, node, state, outcome, llm_calls,
                   trace, loaded, orch>>

\* Save and Apply Configuration in the Configuration tab while a session is
\* open; explored for a single session whose LLM calls do not fail
save_current_config ==
    /\ sessions = {"s1"}
    /\ llm_profile = "stable"
    /\ config_file = SavedConfigFile
    /\ config_file' = EditedConfigFile
    /\ UNCHANGED <<parser, langgraph_enabled, llm_profile, sessions, orch>>
    /\ UNCHANGED graph_vars

load_config(r) ==
    /\ node[r] = "load_config"
    /\ Return(r, "load_config", _load_config(state[r], config_file), AdapterCalls("load_config"))
    /\ UNCHANGED <<model_used, attempts, cancel_requested, config_file, parser, langgraph_enabled,
                   llm_profile, sessions, rule_store, write_log,
                   runs_started, loaded, orch>>

agent1_parse_rule(r) ==
    /\ node[r] = "agent1_parse_rule"
    /\ \E response \in LLMParseResponses :
         IF IsNone(parsed_response[response.text]) /\ MayRetry(attempts[r])
         THEN /\ attempts' = [attempts EXCEPT ![r] = @ + 1]
              /\ UNCHANGED <<node, state, outcome, llm_calls, trace>>
         ELSE /\ Return(r, "agent1_parse_rule",
                        _agent1_parse_rule(state[r], agent1_process(response)),
                        AdapterCalls("agent1_parse_rule"))
              /\ attempts' = [attempts EXCEPT ![r] = 0]
    /\ model_used' = [model_used EXCEPT ![r] = Some(DEFAULT_MODEL)]
    /\ UNCHANGED <<cancel_requested, config_file, parser, langgraph_enabled,
                   llm_profile, sessions, rule_store, write_log,
                   runs_started, loaded, orch>>

agent3_conflict_analysis(r) ==
    /\ node[r] = "agent3_conflict_analysis"
    /\ \E ans \in ConflictAnswers(rule_store) :
         Return(r, "agent3_conflict_analysis", _agent3_conflict_analysis(state[r], ans), AdapterCalls("agent3_conflict_analysis"))
    /\ UNCHANGED <<model_used, attempts, cancel_requested, config_file, parser, langgraph_enabled,
                   llm_profile, sessions, rule_store, write_log,
                   runs_started, loaded, orch>>

agent3_impact_analysis(r) ==
    /\ node[r] = "agent3_impact_analysis"
    /\ \E ans \in ImpactAnswers :
         Return(r, "agent3_impact_analysis", _agent3_impact_analysis(state[r], ans), AdapterCalls("agent3_impact_analysis"))
    /\ UNCHANGED <<model_used, attempts, cancel_requested, config_file, parser, langgraph_enabled,
                   llm_profile, sessions, rule_store, write_log,
                   runs_started, loaded, orch>>

agent3_orchestration(r) ==
    /\ node[r] = "agent3_orchestration"
    /\ \E ans \in DecisionAnswers :
         Return(r, "agent3_orchestration", _agent3_orchestration(state[r], ans), AdapterCalls("agent3_orchestration"))
    /\ UNCHANGED <<model_used, attempts, cancel_requested, config_file, parser, langgraph_enabled,
                   llm_profile, sessions, rule_store, write_log,
                   runs_started, loaded, orch>>

\* the adapter call of generate_files; on success the node goes on to the store
agent2_generate_files(r) ==
    /\ node[r] = "agent2_generate_files"
    /\ IsNone(loaded[r])
    /\ \E ok \in GenerateAnswers :
         LET s2 == _agent2_generate_files(state[r], ok) IN
         IF ~ok /\ MayRetry(attempts[r])
         THEN /\ attempts' = [attempts EXCEPT ![r] = @ + 1]
              /\ UNCHANGED <<node, state, outcome, llm_calls, trace, loaded>>
         ELSE IF IsNone(s2.generated_artifacts)
         THEN /\ Return(r, "agent2_generate_files", s2, AdapterCalls("agent2_generate_files"))
              /\ attempts' = [attempts EXCEPT ![r] = 0]
              /\ UNCHANGED loaded
         ELSE /\ state' = [state EXCEPT ![r] = s2]
              /\ llm_calls' = [llm_calls EXCEPT ![r] = @ + AdapterCalls("agent2_generate_files")]
              /\ loaded' = [loaded EXCEPT ![r] = Some(rule_store)]
              /\ attempts' = [attempts EXCEPT ![r] = 0]
              /\ UNCHANGED <<node, trace, outcome>>
    /\ UNCHANGED <<model_used, cancel_requested, config_file, parser, langgraph_enabled,
                   llm_profile, sessions, rule_store, write_log,
                   runs_started, orch>>

\* save_rules of the list merged by rule_id; generate_files then returns
agent2_save_rules(r) ==
    /\ node[r] = "agent2_generate_files"
    /\ ~IsNone(loaded[r])
    /\ rule_store' = upsert_rule(loaded[r][1], state[r].parsed_rule[1])
    /\ write_log' = Append(write_log, [session |-> r, rule |-> state[r].parsed_rule[1],
                                       base |-> loaded[r][1]])
    /\ loaded' = [loaded EXCEPT ![r] = None]
    /\ Return(r, "agent2_generate_files", state[r], 0)
    /\ UNCHANGED <<model_used, attempts, cancel_requested, config_file, parser, langgraph_enabled,
                   llm_profile, sessions, runs_started, orch>>

\* mutant: verify_files saves the parsed rule once more
verify_files_SavesRule(r) ==
    /\ node[r] = "verify_files"
    /\ \E valid \in BOOLEAN :
         Return(r, "verify_files", _verify_files(state[r], valid), AdapterCalls("verify_files"))
    /\ rule_store' = upsert_rule(rule_store, state[r].parsed_rule[1])
    /\ UNCHANGED <<model_used, attempts, cancel_requested, config_file, parser, langgraph_enabled,
                   llm_profile, sessions, write_log, runs_started, loaded, orch>>

verify_files(r) ==
    /\ node[r] = "verify_files"
    /\ \E valid \in BOOLEAN :
         Return(r, "verify_files", _verify_files(state[r], valid), AdapterCalls("verify_files"))
    /\ UNCHANGED <<model_used, attempts, cancel_requested, config_file, parser, langgraph_enabled,
                   llm_profile, sessions, rule_store, write_log,
                   runs_started, loaded, orch>>

generate_response(r) ==
    /\ node[r] = "generate_response"
    /\ Return(r, "generate_response", _generate_response(state[r]), AdapterCalls("generate_response"))
    /\ UNCHANGED <<model_used, attempts, cancel_requested, config_file, parser, langgraph_enabled,
                   llm_profile, sessions, rule_store, write_log,
                   runs_started, loaded, orch>>

handle_error(r) ==
    /\ node[r] = "handle_error"
    /\ Return(r, "handle_error", _handle_error(state[r]), AdapterCalls("handle_error"))
    /\ UNCHANGED <<model_used, attempts, cancel_requested, config_file, parser, langgraph_enabled,
                   llm_profile, sessions, rule_store, write_log,
                   runs_started, loaded, orch>>

GraphStep(r) ==
    \/ load_config(r)
    \/ agent1_parse_rule(r)
    \/ agent3_conflict_analysis(r)
    \/ agent3_impact_analysis(r)
    \/ agent3_orchestration(r)
    \/ agent2_generate_files(r)
    \/ agent2_save_rules(r)
    \/ verify_files(r)
    \/ generate_response(r)
    \/ handle_error(r)

(***************************************************************************)
(* The traditional Agent 3 workflow: orchestrate_rule_generation           *)
(***************************************************************************)
\* mutant: the exception of a step is passed on to the caller
OrchExcept_Reraise(o) == [o EXCEPT !.pc = "done", !.returned = "raised"]

\* except Exception as e: error and fallback_available are set, then return
OrchExcept(o) ==
    [o EXCEPT !.error = Some("exception"), !.fallback_available = TRUE,
              !.pc = "done", !.returned = "workflow_result"]

OrchStepDone(o, step, keys, next) ==
    [o EXCEPT !.steps_completed = Append(@, step),
              !.generated_content = @ \cup keys,
              !.pc = next]

\* mutant: the filter compares with a severity the detectors never assign
high_severity_conflicts_Critical(conflicts) ==
    SelectSeq(conflicts, LAMBDA c : c.severity = "critical")

\* high_severity_conflicts = [c for c in conflicts if c["severity"] == "high"]
high_severity_conflicts(conflicts) ==
    SelectSeq(conflicts, LAMBDA c : c.severity = "high")

orchestrate_rule_generation ==
    /\ ~langgraph_enabled
    /\ orch.pc \in {"idle", "done"}
    /\ runs_started < MaxRuns
    /\ runs_started' = runs_started + 1
    /\ orch' = [OrchIdle EXCEPT !.pc = "user_request_analysis"]
    /\ UNCHANGED <<model_used, attempts, cancel_requested, config_file, parser, langgraph_enabled,
                   llm_profile, sessions, rule_store, write_log,
                   node, state, outcome, llm_calls, trace, loaded>>

\* Step 1: analyze_user_request, and the clarification return
orch_user_request_analysis ==
    /\ orch.pc = "user_request_analysis"
    /\ \/ orch' = OrchExcept(orch)
       \/ \E requires_clarification \in BOOLEAN :
            LET o == OrchStepDone(orch, "user_request_analysis", {}, "nl_to_json_conversion") IN
            orch' = IF requires_clarification
                    THEN [o EXCEPT !.pc = "done", !.returned = "needs_clarification"]
                    ELSE o
    /\ UNCHANGED <<config_file, parser, langgraph_enabled, llm_profile, sessions>>
    /\ UNCHANGED graph_vars

\* Step 2: agent1_process
orch_nl_to_json_conversion ==
    /\ orch.pc = "nl_to_json_conversion"
    /\ \/ orch' = OrchExcept(orch)
       \/ \E json_rule \in ParsedRules :
            orch' = [OrchStepDone(orch, "nl_to_json_conversion", {"json_rule"},
                                  "conflict_analysis")
                       EXCEPT !.json_rule = Some(json_rule)]
    /\ UNCHANGED <<config_file, parser, langgraph_enabled, llm_profile, sessions>>
    /\ UNCHANGED graph_vars

\* Step 3: analyze_rule_conflicts, and the return on a high-severity conflict
orch_conflict_analysis ==
    /\ orch.pc = "conflict_analysis"
    /\ \/ orch' = OrchExcept(orch)
       \/ \E conflicts \in ConflictLists(rule_store) :
            LET o == [OrchStepDone(orch, "conflict_analysis", {"conflict_analysis"},
                                   "impact_analysis")
                        EXCEPT !.conflicts = conflicts]
                has_conflicts == Len(conflicts) > 0
            IN  orch' = IF has_conflicts /\ Len(high_severity_conflicts(conflicts)) > 0
                        THEN [o EXCEPT !.pc = "done", !.returned = "requires_resolution"]
                        ELSE o
    /\ UNCHANGED <<config_file, parser, langgraph_enabled, llm_profile, sessions>>
    /\ UNCHANGED graph_vars

\* Step 4: assess_rule_impact
orch_impact_analysis ==
    /\ orch.pc = "impact_analysis"
    /\ \/ orch' = OrchExcept(orch)
       \/ orch' = OrchStepDone(orch, "impact_analysis", {"impact_analysis"},
                               "drl_gdst_generation")
    /\ UNCHANGED <<config_file, parser, langgraph_enabled, llm_profile, sessions>>
    /\ UNCHANGED graph_vars

\* Step 5: json_to_drl_gdst
orch_drl_gdst_generation ==
    /\ orch.pc = "drl_gdst_generation"
    /\ \/ orch' = OrchExcept(orch)
       \/ orch' = OrchStepDone(orch, "drl_gdst_generation",
                               {"drl_content", "gdst_content"}, "recommendations")
    /\ UNCHANGED <<config_file, parser, langgraph_enabled, llm_profile, sessions>>
    /\ UNCHANGED graph_vars

\* Step 6: generate_final_recommendations, suggest_next_actions, success = True
orch_recommendations ==
    /\ orch.pc = "recommendations"
    /\ \/ orch' = OrchExcept(orch)
       \/ orch' = [orch EXCEPT !.success = TRUE, !.pc = "done",
                               !.returned = "workflow_result"]
    /\ UNCHANGED <<config_file, parser, langgraph_enabled, llm_profile, sessions>>
    /\ UNCHANGED graph_vars

\* the dictionary the caller receives: workflow_result, or the literal of one
\* of the two return statements inside the try block
OrchResult(o) ==
    CASE o.returned = "needs_clarification" ->
           [success |-> TRUE, needs_clarification |-> TRUE]
      [] o.returned = "requires_resolution" ->
           [success |-> TRUE, requires_resolution |-> TRUE, conflicts |-> o.conflicts]
      [] OTHER ->
           [success |-> o.success, steps_completed |-> o.steps_completed,
            generated_content |-> o.generated_content, error |-> o.error,
            fallback_available |-> o.fallback_available]

\* the steps of the try block in the order of the function body
OrchSteps ==
    << "user_request_analysis", "nl_to_json_conversion", "conflict_analysis",
       "impact_analysis", "drl_gdst_generation", "recommendations" >>

OrchStep ==
    \/ orchestrate_rule_generation
    \/ orch_user_request_analysis
    \/ orch_nl_to_json_conversion
    \/ orch_conflict_analysis
    \/ orch_impact_analysis
    \/ orch_drl_gdst_generation
    \/ orch_recommendations

Next ==
    \/ \E r \in Sessions : run_workflow(r) \/ cancel(r) \/ GraphStep(r)
    \/ save_current_config
    \/ OrchStep

Spec == Init /\ [][Next]_vars

(***************************************************************************)
(* The parser alone: a payload and the same payload wrapped in prose are   *)
(* each handed to parse_json_response                                      *)
(***************************************************************************)
ParserInit ==
    /\ langgraph_enabled = TRUE
    /\ llm_profile = "full"
    /\ sessions = {"s1"}
    /\ rule_store = <<>>
    /\ write_log = <<>>
    /\ runs_started = 0
    /\ node = [r \in Sessions |-> IDLE]
    /\ state = [r \in Sessions |-> InitialState(None, <<>>, "generic")]
    /\ outcome = [r \in Sessions |-> "none"]
    /\ llm_calls = [r \in Sessions |-> 0]
    /\ trace = [r \in Sessions |-> <<>>]
    /\ loaded = [r \in Sessions |-> None]
    /\ attempts = [r \in Sessions |-> 0]
    /\ cancel_requested = [r \in Sessions |-> FALSE]
    /\ model_used = [r \in Sessions |-> None]
    /\ config_file = SavedConfigFile
    /\ orch = OrchIdle
    /\ \E payload \in JsonPayloads, before \in Prose, after \in Prose :
         parser = [ParserIdle EXCEPT !.bare = payload,
                                     !.response = before \o payload \o after]

parse_bare_payload ==
    /\ IsNone(parser.from_bare)
    /\ parser' = [parser EXCEPT !.from_bare = Some(parse_json_response(parser.bare))]
    /\ UNCHANGED <<config_file, langgraph_enabled, llm_profile, sessions, orch>>
    /\ UNCHANGED graph_vars

parse_llm_response ==
    /\ IsNone(parser.from_response)
    /\ parser' = [parser EXCEPT
                    !.from_response = Some(parse_json_response(parser.response))]
    /\ UNCHANGED <<config_file, langgraph_enabled, llm_profile, sessions, orch>>
    /\ UNCHANGED graph_vars

ParserNext == parse_bare_payload \/ parse_llm_response

ParserSpec == ParserInit /\ [][ParserNext]_vars

\* the graph runs a node whenever one is due; callers need not call again
FairSpec == Spec /\ \A r \in Sessions : WF_vars(GraphStep(r))

(***************************************************************************)
(* Properties                                                              *)
(***************************************************************************)
Elems(seq) == { seq[i] : i \in 1..Len(seq) }

Count(rules, id) == Cardinality({ i \in 1..Len(rules) : rules[i].rule_id = id })

Stored(rules, id) == { rules[i] : i \in { j \in 1..Len(rules) : rules[j].rule_id = id } }

Returned(r) == outcome[r] = "returned"

\* C1: every run started with a valid user_input reaches a terminal stage and
\* returns with final_response non-empty; no return leaves it unset.
C1_Termination ==
    /\ [](\A r \in Sessions : Returned(r) => Len(state[r].final_response) > 0)
    /\ \A r \in Sessions :
         (outcome[r] = "running") ~> (Returned(r) /\ Len(state[r].final_response) > 0)

C1_Witness ==
    \E r \in Sessions :
        /\ Returned(r)
        /\ ~IsNone(state[r].error)
        /\ state[r].error[1].stage = "agent3_impact_analysis"
        /\ Len(state[r].final_response) > 0

\* C2: once conflict analysis has yielded a conflict of severity high, generation
\* is never entered, whatever the decision: neither the graph's generate_files
\* node nor the traditional workflow's drl_gdst_generation step.
C2_HighSeverityGate ==
    /\ \A r \in Sessions :
         HasHighSeverity(state[r].conflicts) =>
            /\ node[r] # "agent2_generate_files"
            /\ "agent2_generate_files" \notin Elems(trace[r])
            /\ IsNone(state[r].generated_artifacts)
    /\ HasHighSeverity(orch.conflicts) =>
            /\ orch.pc # "drl_gdst_generation"
            /\ "drl_gdst_generation" \notin Elems(orch.steps_completed)
            /\ "drl_content" \notin orch.generated_content

C2_Witness ==
    \E r \in Sessions :
        /\ HasHighSeverity(state[r].conflicts)
        /\ state[r].decision = "proceed"
        /\ Returned(r)

C4_WriteOnlyAfterVerify ==
    [][ write_log' # write_log =>
          LET w == write_log'[Len(write_log')] IN
            /\ ~IsNone(state[w.session].generated_artifacts)
            /\ ~IsNone(state[w.session].verification_result)
            /\ state[w.session].verification_result[1].is_valid ]_vars

\* C5: a save of a rule whose rule_id an earlier call already saved leaves
\* exactly one stored rule with that id, and it is the rule of this later call.
C5_IdempotentUpsert ==
    [][ write_log' # write_log =>
          LET w == write_log'[Len(write_log')] IN
            (\E i \in 1..Len(write_log) : write_log[i].rule.rule_id = w.rule.rule_id)
            => /\ Count(rule_store', w.rule.rule_id) = 1
               /\ Stored(rule_store', w.rule.rule_id) = {w.rule} ]_vars

C5_Witness ==
    /\ Len(write_log) = 2
    /\ write_log[1].session = write_log[2].session
    /\ write_log[1].rule.rule_id = write_log[2].rule.rule_id
    /\ write_log[1].rule # write_log[2].rule
    /\ Stored(rule_store, write_log[2].rule.rule_id) = {write_log[2].rule}

WroteInRun(r) ==
    /\ "agent2_generate_files" \in Elems(trace[r])
    /\ ~IsNone(state[r].generated_artifacts)

IsBlank(user_input) ==
    \/ user_input = None
    \/ \A i \in 1..Len(user_input[1]) : user_input[1][i] \in {" ", "nbsp"}

\* C7: a call whose user_input is None, empty or whitespace-only ends with
\* InputValidationError before any node has run and with no adapter call.
C7_InputValidation ==
    \A r \in Sessions :
        (outcome[r] # "none" /\ IsBlank(state[r].user_input))
        => /\ outcome[r] = "InputValidationError"
           /\ node[r] = IDLE
           /\ trace[r] = <<>>
           /\ llm_calls[r] = 0
           /\ state[r] = InitialState(state[r].user_input, state[r].conversation_history,
                                    state[r].industry_context)

C7_Witness ==
    \E r \in Sessions :
        /\ outcome[r] = "InputValidationError"
        /\ state[r].user_input = Some(<<"nbsp">>)
        /\ llm_calls[r] = 0

VerifyFailed(r) ==
    /\ WroteInRun(r)
    /\ "verify_files" \in Elems(trace[r])
    /\ ~IsNone(state[r].verification_result)
    /\ ~state[r].verification_result[1].is_valid

ArtifactsOf(rule) ==
    [rule_text  |-> <<"rule", rule.name, rule.rule_id, rule.logic>>,
     table_text |-> <<"decision-table", rule.name, rule.rule_id>>]

\* C8: after verify_files has reported failure, the artifacts generate_files
\* produced from the parsed rule stay in the state, up to and in the terminal state.
C8_ArtifactsKept ==
    \A r \in Sessions :
        ("verify_files" \in Elems(trace[r]) /\ "agent2_generate_files" \in Elems(trace[r])
           /\ IsNone(state[r].error)
           /\ ~IsNone(state[r].verification_result)
           /\ ~state[r].verification_result[1].is_valid)
        => state[r].generated_artifacts = Some(ArtifactsOf(state[r].parsed_rule[1]))

C8_Witness ==
    \E r \in Sessions :
        /\ Returned(r)
        /\ VerifyFailed(r)
        /\ state[r].generated_artifacts = Some(ArtifactsOf(state[r].parsed_rule[1]))

C10_FailureRoutesToHandleError ==
    [][ \A r \in Sessions :
          (node[r] \in Nodes /\ IsNone(state[r].error) /\ ~IsNone(state'[r].error))
          => /\ state'[r].error[1].stage = node[r]
             /\ node'[r] = "handle_error" ]_vars

LastNode(r) == trace[r][Len(trace[r])]

Entered(r) == trace[r] \o (IF node[r] \in Nodes THEN <<node[r]>> ELSE <<>>)

StageOrder ==
    << "load_config", "agent1_parse_rule", "agent3_conflict_analysis",
       "agent3_impact_analysis", "agent3_orchestration", "agent2_generate_files",
       "verify_files", "generate_response" >>

Position(n) == CHOOSE i \in 1..Len(StageOrder) : StageOrder[i] = n

\* C14: the stages of a run are entered in the order load_config, parse,
\* conflict analysis, impact analysis, orchestration, generate_files,
\* verify_files, generate_response; a stage is entered only when no stage
\* before it has failed; a run that reaches generate_response has run all of
\* the first five.
C14_StageOrder ==
    \A r \in Sessions :
        /\ \A i, j \in 1..Len(Entered(r)) :
              (i < j /\ Entered(r)[j] # "handle_error")
              => /\ Entered(r)[i] # "handle_error"
                 /\ Position(Entered(r)[i]) < Position(Entered(r)[j])
        /\ (node[r] \in Nodes \ {"handle_error"}) => IsNone(state[r].error)
        /\ "generate_response" \in Elems(Entered(r))
           => \A k \in 1..5 : StageOrder[k] \in Elems(trace[r])

C17_ErrorNamesStage ==
    /\ [](\A r \in Sessions :
            (Returned(r) /\ LastNode(r) = "handle_error")
            => /\ ~IsNone(state[r].error)
               /\ state[r].error[1].stage \in Elems(trace[r]) \cap LLMStages
               /\ state[r].final_response = <<"error", state[r].error[1].stage>>)
    /\ [][ \A r \in Sessions :
             (state'[r].error # state[r].error /\ ~IsNone(state'[r].error))
             => state'[r].error[1].stage = node[r] ]_vars

C17_Witness ==
    \E r \in Sessions :
        /\ Returned(r)
        /\ LastNode(r) = "handle_error"
        /\ "agent3_orchestration" \in Elems(trace[r])
        /\ state[r].final_response = <<"error", "agent3_conflict_analysis">>

\* C18: once conflict analysis has reported a conflict with an existing rule,
\* the conflict names that rule, the decision of the run is not proceed and no
\* files are generated, in the graph and in the traditional workflow.
C18_ConflictBlocksProceed ==
    /\ \A r \in Sessions :
         Len(state[r].conflicts) > 0
         => /\ \A i \in 1..Len(state[r].conflicts) :
                  HasRule(rule_store, state[r].conflicts[i].conflicting_rule)
            /\ state[r].decision # "proceed"
            /\ node[r] # "agent2_generate_files"
            /\ IsNone(state[r].generated_artifacts)
    /\ Len(orch.conflicts) > 0
       => /\ orch.pc # "drl_gdst_generation"
          /\ "drl_gdst_generation" \notin Elems(orch.steps_completed)

\* C19: a result of orchestrate_rule_generation whose success is true lists
\* the five steps in steps_completed and holds json_rule, drl_content and
\* impact_analysis in generated_content.
C19_SuccessShape ==
    orch.pc = "done" =>
        LET result == OrchResult(orch) IN
        result.success
        => /\ "steps_completed" \in DOMAIN result
           /\ { OrchSteps[k] : k \in 1..5 } \subseteq Elems(result.steps_completed)
           /\ "generated_content" \in DOMAIN result
           /\ {"json_rule", "drl_content", "impact_analysis"} \subseteq result.generated_content

OrchStepIndex(pc) == CHOOSE k \in 1..Len(OrchSteps) : OrchSteps[k] = pc

\* C20: orchestrate_rule_generation always returns: when a step throws, the
\* caller gets workflow_result with success false, error set and
\* fallback_available true, and steps_completed holds the steps before the
\* one that threw, in order, and no other.
C20_ExceptReturnsResult ==
    /\ [](/\ orch.returned \in
               {"none", "workflow_result", "needs_clarification", "requires_resolution"}
          /\ ~IsNone(orch.error)
             => /\ orch.pc = "done"
                /\ orch.returned = "workflow_result"
                /\ OrchResult(orch).success = FALSE
                /\ OrchResult(orch).fallback_available = TRUE
                /\ OrchResult(orch).error = orch.error
                /\ Len(orch.steps_completed) <= 5
                /\ orch.steps_completed = SubSeq(OrchSteps, 1, Len(orch.steps_completed)))
    /\ [][ (IsNone(orch.error) /\ ~IsNone(orch'.error))
           => /\ orch'.steps_completed = orch.steps_completed
              /\ orch'.generated_content = orch.generated_content
              /\ Len(orch.steps_completed) = OrchStepIndex(orch.pc) - 1 ]_vars

C20_Witness ==
    /\ orch.pc = "done"
    /\ ~IsNone(orch.error)
    /\ orch.fallback_available
    /\ ~orch.success
    /\ orch.steps_completed =
         <<"user_request_analysis", "nl_to_json_conversion", "conflict_analysis">>

\* C21: once agent1_parse_rule has run, the state holds either a parsed rule,
\* or an error of kind ParseError from that stage, never both and never
\* neither; and a parsed rule has its name, a non-empty list of conditions and
\* a non-empty list of actions.
C21_ParsedRuleWellFormed ==
    \A r \in Sessions :
        /\ ~IsNone(state[r].parsed_rule)
           => LET rule == state[r].parsed_rule[1] IN
              /\ {"name", "logic"} \subseteq DOMAIN rule
              /\ rule.name # ""
              /\ Len(rule.logic.conditions) > 0
              /\ Len(rule.logic.actions) > 0
        /\ "agent1_parse_rule" \in Elems(trace[r])
           => (~IsNone(state[r].parsed_rule))
              # (IF IsNone(state[r].error) THEN FALSE
                 ELSE /\ state[r].error[1].stage = "agent1_parse_rule"
                      /\ state[r].error[1].kind = "ParseError")

C23_ConflictThenImpact ==
    [][ /\ \A r \in Sessions :
             (/\ node[r] = "agent3_conflict_analysis"
              /\ node'[r] # node[r]
              /\ IsNone(state'[r].error))
             => node'[r] = "agent3_impact_analysis"
        /\ (/\ orch.pc = "conflict_analysis"
            /\ orch'.pc # orch.pc
            /\ IsNone(orch'.error))
           => orch'.pc = "impact_analysis" ]_vars

C25_ImpactNeverFails ==
    [][ /\ \A r \in Sessions :
             (node[r] = "agent3_impact_analysis" /\ node'[r] # node[r])
             => /\ state'[r].error = state[r].error
                /\ ~IsNone(state'[r].impact_analysis)
                /\ node'[r] = "agent3_orchestration"
        /\ (orch.pc = "impact_analysis" /\ orch'.pc # orch.pc)
           => /\ IsNone(orch'.error)
              /\ orch'.pc = "drl_gdst_generation" ]_vars

C27_CancelAtBoundaries ==
    [][ \A r \in Sessions :
          /\ (/\ cancel_requested[r]
              /\ node[r] \in Nodes
              /\ IsNone(loaded[r])
              /\ attempts[r] = 0)
             => /\ trace'[r] = trace[r]
                /\ state'[r] = state[r]
                /\ loaded'[r] = loaded[r]
          /\ (~IsNone(loaded[r]) /\ node'[r] # node[r])
             => /\ write_log' # write_log
                /\ trace'[r] = Append(trace[r], "agent2_generate_files") ]_vars

\* C28: load_config never fails a run: whatever it finds in the configuration
\* file, it sets no error and agent1_parse_rule is the next node; with a file
\* that is missing, corrupted or invalid the run holds the default
\* configuration, with a valid file the saved one.
C28_LoadConfigNeverFails ==
    /\ [](\A r \in Sessions :
            /\ ~IsNone(state[r].error) => state[r].error[1].stage # "load_config"
            /\ \A i \in 1..Len(Entered(r)) :
                 (Entered(r)[i] = "load_config" /\ i < Len(Entered(r)))
                 => Entered(r)[i + 1] = "agent1_parse_rule")
    /\ [][ \A r \in Sessions :
             (node[r] = "load_config" /\ node'[r] # node[r])
             => /\ node'[r] = "agent1_parse_rule"
                /\ IsNone(state'[r].error)
                /\ state'[r].config =
                     Some(IF validate_config(config_file)
                          THEN [agent_prompts |-> config_file[1].agent_prompts,
                                model_config  |-> config_file[1].model_config]
                          ELSE DEFAULT_CONFIG) ]_vars

C28_Witness ==
    \E r \in Sessions :
        /\ "agent1_parse_rule" \in Elems(trace[r])
        /\ ~IsNone(config_file)
        /\ config_file[1].valid_json
        /\ ~validate_config(config_file)
        /\ state[r].config = Some(DEFAULT_CONFIG)
        /\ IsNone(state[r].error)

C30_FailureAbortsGeneration ==
    \A r \in Sessions :
        ~IsNone(state[r].error)
        => /\ node[r] \notin {"agent2_generate_files", "verify_files"}
           /\ "verify_files" \notin Elems(trace[r])
           /\ ~WroteInRun(r)
           /\ "agent2_generate_files" \in Elems(trace[r])
              => state[r].error[1].stage = "agent2_generate_files"

TerminalNodes == {"generate_response", "handle_error"}

\* C31: every run ends, and it ends in exactly one of generate_response and
\* handle_error: a run that has returned executed one terminal node, as its
\* last node; once a terminal node has run, no node is due, and until the
\* caller starts the next run no field of the state changes.
C31_OneTerminalStage ==
    /\ [](\A r \in Sessions :
            /\ Returned(r)
               => /\ Len(trace[r]) > 0
                  /\ LastNode(r) \in TerminalNodes
            /\ Cardinality({ i \in 1..Len(trace[r]) : trace[r][i] \in TerminalNodes }) <= 1
            /\ (\E i \in 1..Len(trace[r]) : trace[r][i] \in TerminalNodes)
               => (node[r] = END /\ LastNode(r) \in TerminalNodes))
    /\ [][ \A r \in Sessions :
             (node[r] = END /\ node'[r] = END)
             => (state'[r] = state[r] /\ trace'[r] = trace[r]) ]_vars
    /\ \A r \in Sessions : []<>(node[r] \notin Nodes)

C31_Witness ==
    /\ \E r \in Sessions :
         /\ Returned(r)
         /\ LastNode(r) = "handle_error"
         /\ "generate_response" \notin Elems(trace[r])
         /\ runs_started = MaxRuns
    /\ llm_profile = "full"

\* C32: when the runs of the two sessions have each written a rule and the
\* two rule_ids differ, the Rule Store holds both rules once both runs have
\* returned; no write is lost to the other run.
C32_NoLostWrite ==
    \A r1, r2 \in Sessions :
        (/\ r1 # r2
         /\ Returned(r1) /\ Returned(r2)
         /\ WroteInRun(r1) /\ WroteInRun(r2)
         /\ state[r1].parsed_rule[1].rule_id # state[r2].parsed_rule[1].rule_id)
        => /\ state[r1].parsed_rule[1] \in Elems(rule_store)
           /\ state[r2].parsed_rule[1] \in Elems(rule_store)

\* C33: a rule that arrives without a rule_id is given an id that differs from
\* every id in the Rule Store: whenever a run stands at parse_rule, each answer
\* of the LLM that is a rule in all but its rule_id is accepted, and the rule
\* handed on carries an id that no stored rule has.
C33_AbsentIdIsGenerated ==
    \A r \in Sessions :
        (outcome[r] = "running" /\ node[r] = "agent1_parse_rule")
        => \A response \in LLMParseResponses :
               (/\ ~IsNone(parsed_response[response.text])
                /\ DOMAIN response.rule_data = {"name", "conditions", "actions"})
               => LET ans == agent1_process(response)
                  IN  /\ ans.ok
                      /\ ans.rule[1].rule_id \notin { x.rule_id : x \in Elems(rule_store) }

\* C34: a run whose cancellation is signalled between two stages still returns
\* with final_response set, and writes nothing to the Rule Store afterwards:
\* once the signal is there and generate_files has not loaded the rules, it
\* does not load them and no save follows.
C34_CancelledRunReturnsWithoutWrite ==
    /\ [][ \A r \in Sessions :
             (cancel_requested[r] /\ IsNone(loaded[r]))
             => (IsNone(loaded'[r]) /\ write_log' = write_log) ]_vars
    /\ \A r \in Sessions :
         (outcome[r] = "running" /\ cancel_requested[r])
         ~> (Returned(r) /\ Len(state[r].final_response) > 0)

\* C35: an optional field of the state is present only when the stage that
\* produces it has run: parsed_rule only after agent1_parse_rule has run and
\* set no error of its own, generated_artifacts only once
\* agent2_generate_files has run or is under way (it holds the rules it
\* loaded), verification_result only after verify_files.
C35_FieldsFollowStages ==
    \A r \in Sessions :
        outcome[r] \in {"running", "returned"}
        => /\ ~IsNone(state[r].parsed_rule)
              => /\ "agent1_parse_rule" \in Elems(trace[r])
                 /\ (IsNone(state[r].error)
                     \/ state[r].error[1].stage # "agent1_parse_rule")
           /\ ~IsNone(state[r].generated_artifacts)
              => /\ \/ "agent2_generate_files" \in Elems(trace[r])
                    \/ node[r] = "agent2_generate_files" /\ ~IsNone(loaded[r])
                 /\ ~IsNone(state[r].parsed_rule)
           /\ ~IsNone(state[r].verification_result)
              => "verify_files" \in Elems(trace[r])

C35_Witness ==
    /\ llm_profile = "full"
    /\ \E r \in Sessions :
         /\ Returned(r)
         /\ ~IsNone(state[r].parsed_rule)
         /\ ~IsNone(state[r].generated_artifacts)
         /\ ~IsNone(state[r].verification_result)
         /\ "agent2_generate_files" \in Elems(trace[r])
         /\ "verify_files" \in Elems(trace[r])

\* C36: the terminal stages build final_response from fields that were set in
\* the run and from nothing else: the response names artifacts exactly when
\* generate_files has set them, warns about verification only when
\* verify_files has set a result, names a decision only when orchestration
\* has set one, and handle_error names the stage of the error that is set and
\* says "unknown" when none is.
C36_TerminalReadsSetFields ==
    \A r \in Sessions :
        Returned(r)
        => LET s  == state[r]
               fr == s.final_response
           IN  /\ LastNode(r) = "generate_response"
                  => /\ fr[1] = "response"
                     /\ "artifacts" \in Elems(fr)
                        <=> (/\ ~IsNone(s.generated_artifacts)
                             /\ "agent2_generate_files" \in Elems(trace[r]))
                     /\ "VerificationWarning" \in Elems(fr)
                        => (/\ ~IsNone(s.verification_result)
                            /\ "verify_files" \in Elems(trace[r]))
                     /\ (Elems(fr) \cap {"clarification_request", "cancelled"} # {})
                        => (/\ s.decision # ""
                            /\ "agent3_orchestration" \in Elems(trace[r]))
               /\ LastNode(r) = "handle_error"
                  => /\ Len(fr) = 2 /\ fr[1] = "error"
                     /\ IsNone(s.error) => fr[2] = "unknown"
                     /\ ~IsNone(s.error) => fr[2] = s.error[1].stage

\* a response built while artifacts and verification result are unset
C36_Witness ==
    /\ llm_profile = "full"
    /\ \E r \in Sessions :
         /\ Returned(r)
         /\ LastNode(r) = "generate_response"
         /\ ~IsNone(state[r].parsed_rule)
         /\ IsNone(state[r].generated_artifacts)
         /\ IsNone(state[r].verification_result)
         /\ state[r].final_response = <<"response", "cancelled">>

\* C37: user_input, conversation_history and industry_context are changed by
\* no stage: while a run is in progress no step changes them in its state, and
\* during and after the run the state holds the history and the industry the
\* caller passed and a user_input that passed validation.
C37_InputsUnchanged ==
    /\ [](\A r \in Sessions :
            outcome[r] \in {"running", "returned"}
            => /\ state[r].conversation_history = CallerHistory(r)
               /\ state[r].industry_context = CallerIndustry(r)
               /\ state[r].user_input \in UserInputs
               /\ ~InvalidQuery(state[r].user_input))
    /\ [][ \A r \in Sessions :
             outcome[r] = "running"
             => /\ state'[r].user_input = state[r].user_input
                /\ state'[r].conversation_history = state[r].conversation_history
                /\ state'[r].industry_context = state[r].industry_context ]_vars

C37_Witness ==
    \E r \in Sessions :
        /\ Returned(r)
        /\ LastNode(r) = "generate_response"
        /\ "verify_files" \in Elems(trace[r])
        /\ Len(state[r].conversation_history) = 2
        /\ state[r].industry_context = "generic"
        /\ state[r].user_input = Some(<<" ", "a">>)

\* C38: the configuration is read once per run, at load_config, and every later
\* stage uses that snapshot: once load_config has stored the configuration in
\* the state no step of the run changes it, and the model a generate_content
\* call of the run names is the one of the snapshot, whatever has been saved
\* over the configuration since.
C38_ConfigSnapshot ==
    /\ [](\A r \in Sessions :
            (outcome[r] \in {"running", "returned"} /\ ~IsNone(model_used[r]))
            => /\ ~IsNone(state[r].config)
               /\ model_used[r] = Some(state[r].config[1].model_config))
    /\ [][ \A r \in Sessions :
             (outcome[r] = "running" /\ ~IsNone(state[r].config))
             => state'[r].config = state[r].config ]_vars

\* a step touches run r when it changes anything that belongs to that run
Touched(r) ==
    \/ state'[r] # state[r]
    \/ node'[r] # node[r]
    \/ trace'[r] # trace[r]
    \/ outcome'[r] # outcome[r]
    \/ llm_calls'[r] # llm_calls[r]
    \/ loaded'[r] # loaded[r]
    \/ attempts'[r] # attempts[r]

==========================================================================
